---- MODULE Spec2Model ----
(***************************************************************************)
(* The TodoList component of src/src/components/TodoList.tsx (the version  *)
(* with due dates, lines 138-418): its React state, its two effects (load  *)
(* on mount, save on every change of tasks), its handlers and the derived  *)
(* view (getSortedTasks, isOverdue).                                       *)
(*                                                                         *)
(* Representation.                                                         *)
(*  - A JavaScript string is a sequence of one-character strings.          *)
(*  - A JavaScript value that may be of several types is a tagged record   *)
(*    [k |-> kind, ...]; an object held in `tasks` is a function from its  *)
(*    own property names to such values, an array a sequence.              *)
(*  - Time is counted in ticks since the epoch (UTC); a day has DayLen     *)
(*    ticks and local time is UTC + TzOffset ticks.                        *)
(*  - The text under the localStorage key "tasks" is represented by what   *)
(*    it is: absent, the empty string, text that is not JSON, or JSON text *)
(*    given by its syntax tree.                                            *)
(***************************************************************************)
EXTENDS Integers, Sequences, FiniteSets

\* ------------------------------------------------------------- bounds
DayLen == 2
TzOffset == 1
ClockStart == 9
MaxTicks == 1
MaxTasks == 2
MaxStored == 2
MaxViewTasks == 3

\* ------------------------------------------------------ JavaScript values
Undefined == [k |-> "undefined"]
Null == [k |-> "null"]
InvalidDate == [k |-> "invalid-date"]
Bool(b) == [k |-> "bool", v |-> b]
Num(n) == [k |-> "num", v |-> n]
Str(s) == [k |-> "str", v |-> s]
DateV(t) == [k |-> "date", t |-> t]
Arr(s) == [k |-> "arr", v |-> s]
Obj(f) == [k |-> "obj", v |-> f]

\* ToBoolean: what `x ? a : b`, `!x` and `a && b` test.
Truthy(x) ==
  CASE x.k = "undefined" -> FALSE
    [] x.k = "null" -> FALSE
    [] x.k = "bool" -> x.v
    [] x.k = "num" -> x.v # 0
    [] x.k = "str" -> x.v # <<>>
    [] OTHER -> TRUE

\* o.f for an object o: undefined when o has no such property.
Get(o, f) == IF f \in DOMAIN o THEN o[f] ELSE Undefined

\* { ...o, f: x }
With(o, f, x) == [g \in (DOMAIN o) \cup {f} |-> IF g = f THEN x ELSE o[g]]

\* ----------------------------------------------------------------- strings
Digits == <<"0", "1", "2", "3", "4", "5", "6", "7", "8", "9">>
WhiteSpace == {" ", "\t"}

RECURSIVE ToString(_)
\* Number.prototype.toString() of a non-negative integer: its decimal digits.
ToString(n) ==
  IF n < 10 THEN <<Digits[n + 1]>>
  ELSE ToString(n \div 10) \o <<Digits[(n % 10) + 1]>>

IsDigit(c) == \E d \in 1..10 : Digits[d] = c
DigitVal(c) == (CHOOSE d \in 1..10 : Digits[d] = c) - 1

RECURSIVE ParseDigits(_)
ParseDigits(s) ==
  IF s = <<>> THEN 0
  ELSE ParseDigits(SubSeq(s, 1, Len(s) - 1)) * 10 + DigitVal(s[Len(s)])

AllDigits(s) == s # <<>> /\ \A i \in 1..Len(s) : IsDigit(s[i])

RECURSIVE TrimStart(_)
TrimStart(s) ==
  IF s # <<>> /\ s[1] \in WhiteSpace THEN TrimStart(Tail(s)) ELSE s

RECURSIVE TrimEnd(_)
TrimEnd(s) ==
  IF s # <<>> /\ s[Len(s)] \in WhiteSpace
  THEN TrimEnd(SubSeq(s, 1, Len(s) - 1)) ELSE s

\* String.prototype.trim()
Trim(s) == TrimEnd(TrimStart(s))

\* ------------------------------------------------------------------- dates
\* A mutant of ToISOString: the date without the time of day.
ToISOStringDateOnly(t) == ToString(t \div DayLen)

\* Date.prototype.toISOString(): the UTC date, "T", the UTC time of day, "Z".
ToISOString(t) ==
  ToString(t \div DayLen) \o <<"T">> \o ToString(t % DayLen) \o <<"Z">>

\* new Date(s) for a string s: the date-time form above, the date-only form
\* (UTC midnight), anything else is an Invalid Date.
DateParse(s) ==
  LET ts == {i \in 1..Len(s) : s[i] = "T"} IN
  IF AllDigits(s) THEN DateV(ParseDigits(s) * DayLen)
  ELSE IF Cardinality(ts) = 1 /\ Len(s) >= 4 /\ s[Len(s)] = "Z"
  THEN LET p == CHOOSE i \in ts : TRUE
           d == SubSeq(s, 1, p - 1)
           h == SubSeq(s, p + 1, Len(s) - 1)
       IN IF AllDigits(d) /\ AllDigits(h) /\ ParseDigits(h) < DayLen
          THEN DateV(ParseDigits(d) * DayLen + ParseDigits(h))
          ELSE InvalidDate
  ELSE InvalidDate

\* new Date(v)
NewDate(v) ==
  CASE v.k = "str" -> DateParse(v.v)
    [] v.k = "num" -> DateV(v.v)
    [] v.k = "date" -> v
    [] OTHER -> InvalidDate

\* date-fns startOfDay: local midnight of the local calendar day of t.
StartOfDay(t) == ((t + TzOffset) \div DayLen) * DayLen - TzOffset

\* date-fns isBefore
IsBefore(a, b) == a < b

\* -------------------------------------------------------------------- JSON
\* The text stored under the key, and what localStorage.getItem returns.
NoKey == [k |-> "nokey"]
EmptyText == [k |-> "empty"]
GarbageText == [k |-> "garbage"]
JsonText(j) == [k |-> "json", v |-> j]

\* Date.prototype.toJSON and the values JSON.stringify writes as they are.
ToJSONValue(x) ==
  CASE x.k = "date" -> Str(ToISOString(x.t))
    [] x.k = "invalid-date" -> Null
    [] OTHER -> x

\* JSON.stringify of one task object: own properties whose value is undefined
\* are left out.
StringifyObject(o) ==
  Obj([f \in {g \in DOMAIN o : o[g] # Undefined} |-> ToJSONValue(o[f])])

\* JSON.stringify(tasks)
JSONStringify(ts) == JsonText(Arr([i \in 1..Len(ts) |-> StringifyObject(ts[i])]))

\* JSON.parse(text): the value, or a SyntaxError.
JSONParse(text) ==
  IF text.k = "json" THEN [ok |-> TRUE, v |-> text.v] ELSE [ok |-> FALSE]

\* The own enumerable properties `{ ...x }` copies: those of an object, none
\* of null, a number or a boolean.
OwnProps(x) == IF x.k = "obj" THEN x.v ELSE <<>>

\* task.dueDate on a parsed element: a TypeError on null.
CanReadProps(x) == x.k \notin {"null", "undefined"}
Prop(x, f) == IF x.k = "obj" THEN Get(x.v, f) ELSE Undefined

\* (task: any) => ({ ...task, dueDate: task.dueDate ? new Date(task.dueDate) : undefined })
ReviveTask(x) ==
  With(OwnProps(x), "dueDate",
       IF Truthy(Prop(x, "dueDate")) THEN NewDate(Prop(x, "dueDate")) ELSE Undefined)

\* The body of the load effect's try block: what setTasks is called with, or
\* that an exception was thrown (and caught).
ParseSaved(text) ==
  LET p == JSONParse(text) IN
  IF ~p.ok THEN [ok |-> FALSE]
  ELSE IF p.v.k # "arr" THEN [ok |-> FALSE]
  ELSE IF \E i \in 1..Len(p.v.v) : ~CanReadProps(p.v.v[i]) THEN [ok |-> FALSE]
  ELSE [ok |-> TRUE, v |-> [i \in 1..Len(p.v.v) |-> ReviveTask(p.v.v[i])]]

\* `if (savedTasks)`: getItem's null and the empty string are falsy.
HasSaved(text) == text.k \notin {"nokey", "empty"}

\* -------------------------------------------------------------------- view
\* getTime() of a Date.
GetTime(d) == d.t

\* A mutant of Compare: two due dates compared the other way round.
CompareDescending(a, b) ==
  IF Get(a, "completed") # Get(b, "completed")
  THEN (IF Truthy(Get(a, "completed")) THEN 1 ELSE -1)
  ELSE IF Truthy(Get(a, "dueDate")) /\ Truthy(Get(b, "dueDate"))
  THEN GetTime(Get(b, "dueDate")) - GetTime(Get(a, "dueDate"))
  ELSE IF Truthy(Get(a, "dueDate")) THEN -1
  ELSE IF Truthy(Get(b, "dueDate")) THEN 1
  ELSE 0

\* The comparator handed to sort (lines 234-250).
Compare(a, b) ==
  IF Get(a, "completed") # Get(b, "completed")
  THEN (IF Truthy(Get(a, "completed")) THEN 1 ELSE -1)
  ELSE IF Truthy(Get(a, "dueDate")) /\ Truthy(Get(b, "dueDate"))
  THEN GetTime(Get(a, "dueDate")) - GetTime(Get(b, "dueDate"))
  ELSE IF Truthy(Get(a, "dueDate")) THEN -1
  ELSE IF Truthy(Get(b, "dueDate")) THEN 1
  ELSE 0

RECURSIVE InsertIdx(_, _, _)
\* Index x put into the sorted sequence of indices s: after every element that
\* does not compare greater than it.
InsertIdx(ts, s, x) ==
  IF s = <<>> THEN <<x>>
  ELSE IF Compare(ts[s[Len(s)]], ts[x]) <= 0 THEN Append(s, x)
  ELSE Append(InsertIdx(ts, SubSeq(s, 1, Len(s) - 1), x), s[Len(s)])

RECURSIVE SortIdx(_, _)
SortIdx(ts, n) == IF n = 0 THEN <<>> ELSE InsertIdx(ts, SortIdx(ts, n - 1), n)

\* Array.prototype.sort with the comparator, which is stable: the elements of
\* ts in sorted order, and the indices they came from.
SortOrder(ts) == SortIdx(ts, Len(ts))
Sorted(ts) == [i \in 1..Len(ts) |-> ts[SortOrder(ts)[i]]]

\* getSortedTasks: its result, and the tasks array as the call leaves it (the
\* code sorts a copy, [...tasks]).
getSortedTasks(ts, mode) ==
  IF mode = "none" THEN [tasks |-> ts, result |-> ts]
  ELSE [tasks |-> ts, result |-> Sorted(ts)]

\* A mutant of isOverdue: the due date compared with the clock itself, not
\* with the start of the current day.
isOverdueRawCompare(task, t) ==
  IF ~Truthy(Get(task, "dueDate")) \/ Truthy(Get(task, "completed")) THEN FALSE
  ELSE IsBefore(StartOfDay(GetTime(Get(task, "dueDate"))), t)

\* isOverdue(task), with new Date() reading the clock at t.
isOverdue(task, t) ==
  IF ~Truthy(Get(task, "dueDate")) \/ Truthy(Get(task, "completed")) THEN FALSE
  ELSE LET today == StartOfDay(t)
           taskDueDate == StartOfDay(GetTime(Get(task, "dueDate")))
       IN IsBefore(taskDueDate, today)

\* ------------------------------------------------------------------- state
VARIABLES
  pc,            \* where the component is: the mount sequence, then "ready"
  tasks,         \* useState<Task[]>
  inputValue,    \* useState("")
  selectedDate,  \* useState<Date | undefined>()
  sortBy,        \* useState<SortOption>("deadline")
  sortedTasks,   \* const sortedTasks of the last render
  storage,       \* the text under the localStorage key "tasks"
  savedTasks,    \* the load effect's const savedTasks
  queued,        \* the state update setTasks queued during the mount effects
  now            \* the clock: Date.now(), new Date()

vars == <<pc, tasks, inputValue, selectedDate, sortBy, sortedTasks, storage,
          savedTasks, queued, now>>

NotRead == [k |-> "notread"]
NoUpdate == [set |-> FALSE]
Update(ts) == [set |-> TRUE, v |-> ts]

\* ------------------------------------------------------ the environment
\* Local midnight of local calendar day d, the dates the Calendar offers.
LocalMidnight(d) == d * DayLen - TzOffset
CalendarDay(t) == (t + TzOffset) \div DayLen
FirstDay == CalendarDay(ClockStart)
LastDay == CalendarDay(ClockStart + MaxTicks)
CalendarDates == {LocalMidnight(d) : d \in (FirstDay - 1)..(LastDay + 1)}

\* What the user can type.
Inputs == {<<>>, <<" ">>, <<"\t", "a", " ">>}

\* Tasks an earlier session saved: ids from earlier clock readings.
StoredId(i) == ToString(ClockStart - MaxStored - 1 + i)
StoredDue == {Undefined, DateV(LocalMidnight(FirstDay - 1))}
StoredTask(i, c, d) ==
  [id |-> Str(StoredId(i)), text |-> Str(<<"a">>), completed |-> Bool(c), dueDate |-> d]
StoredLists ==
  UNION {[1..n -> BOOLEAN \X StoredDue] : n \in 0..MaxStored}
StoredTasks(l) == [i \in 1..Len(l) |-> StoredTask(i, l[i][1], l[i][2])]

\* Content of the key that no session of this component wrote.
ForeignTexts ==
  {EmptyText, GarbageText, JsonText(Null), JsonText(Num(1)),
   JsonText(Obj([id |-> Str(<<"1">>)])), JsonText(Arr(<<Null>>)),
   JsonText(Arr(<<Num(1)>>)), JsonText(Arr(<<Obj(<<>>), Obj(<<>>)>>))}

InitialStorage ==
  {NoKey} \cup ForeignTexts \cup {JSONStringify(StoredTasks(l)) : l \in StoredLists}

Init ==
  /\ pc = "mounted"
  /\ tasks = <<>>
  /\ inputValue = <<>>
  /\ selectedDate = Undefined
  /\ sortBy = "deadline"
  /\ sortedTasks = getSortedTasks(<<>>, "deadline").result
  /\ storage \in InitialStorage
  /\ savedTasks = NotRead
  /\ queued = NoUpdate
  /\ now = ClockStart

\* ------------------------------------------------------------ the effects
\* A mutant of Rerender: the save effect writes the tasks of the render
\* before.
RerenderStaleSave(newTasks, newSortBy, tasksChanged) ==
  LET r == getSortedTasks(newTasks, newSortBy) IN
  /\ tasks' = r.tasks
  /\ sortBy' = newSortBy
  /\ sortedTasks' = r.result
  /\ storage' = IF tasksChanged THEN JSONStringify(tasks) ELSE storage

\* A render with the state given, followed by the save effect when tasks
\* changed (lines 186-188, 253).
Rerender(newTasks, newSortBy, tasksChanged) ==
  LET r == getSortedTasks(newTasks, newSortBy) IN
  /\ tasks' = r.tasks
  /\ sortBy' = newSortBy
  /\ sortedTasks' = r.result
  /\ storage' = IF tasksChanged THEN JSONStringify(r.tasks) ELSE storage

\* The load effect (lines 168-183).
LoadEffect ==
  /\ pc = "mounted"
  /\ pc' = "loadDone"
  /\ savedTasks' = storage
  /\ queued' = IF HasSaved(storage) /\ ParseSaved(storage).ok
               THEN Update(ParseSaved(storage).v) ELSE NoUpdate
  /\ UNCHANGED <<tasks, inputValue, selectedDate, sortBy, sortedTasks, storage, now>>

\* The save effect of the first render (lines 186-188): tasks is still [].
SaveEffect ==
  /\ pc = "loadDone"
  /\ storage' = JSONStringify(tasks)
  /\ pc' = IF queued.set THEN "effectsDone" ELSE "ready"
  /\ savedTasks' = IF queued.set THEN savedTasks ELSE NotRead
  /\ UNCHANGED <<tasks, inputValue, selectedDate, sortBy, sortedTasks, queued, now>>

\* The re-render the queued setTasks causes, and its save effect.
MountRerender ==
  /\ pc = "effectsDone"
  /\ Rerender(queued.v, sortBy, TRUE)
  /\ pc' = "ready"
  /\ queued' = NoUpdate
  /\ savedTasks' = NotRead
  /\ UNCHANGED <<inputValue, selectedDate, now>>

\* ----------------------------------------------------------- the handlers
\* onChange of the Input (line 268).
SetInputValue(v) ==
  /\ pc = "ready"
  /\ inputValue' = v
  /\ UNCHANGED <<pc, tasks, selectedDate, sortBy, sortedTasks, storage, savedTasks, queued, now>>

\* onSelect of the Calendar (lines 294-300): dates before today are disabled.
SelectDate(d) ==
  /\ pc = "ready"
  /\ ~IsBefore(d, StartOfDay(now))
  /\ selectedDate' = DateV(d)
  /\ UNCHANGED <<pc, tasks, inputValue, sortBy, sortedTasks, storage, savedTasks, queued, now>>

\* The clear button (lines 303-311).
ClearDate ==
  /\ pc = "ready"
  /\ Truthy(selectedDate)
  /\ selectedDate' = Undefined
  /\ UNCHANGED <<pc, tasks, inputValue, sortBy, sortedTasks, storage, savedTasks, queued, now>>

\* The sort buttons (lines 316-329).
SetSortBy(m) ==
  /\ pc = "ready"
  /\ Rerender(tasks, m, FALSE)
  /\ UNCHANGED <<pc, inputValue, selectedDate, savedTasks, queued, now>>

\* A mutant of AddTask: the task takes the input as typed.
AddTaskUntrimmed ==
  /\ pc = "ready"
  /\ LET trimmedText == Trim(inputValue) IN
     IF trimmedText = <<>>
     THEN UNCHANGED vars
     ELSE /\ Len(tasks) < MaxTasks
          /\ LET newTask == [id |-> Str(ToString(now)),
                             text |-> Str(inputValue),
                             completed |-> Bool(FALSE),
                             dueDate |-> selectedDate]
             IN Rerender(Append(tasks, newTask), sortBy, TRUE)
          /\ inputValue' = <<>>
          /\ selectedDate' = Undefined
          /\ UNCHANGED <<pc, savedTasks, queued, now>>

\* A mutant of AddTask: only the empty input is refused, not the blank one.
AddTaskUntrimmedGuard ==
  /\ pc = "ready"
  /\ LET trimmedText == Trim(inputValue) IN
     IF inputValue = <<>>
     THEN UNCHANGED vars
     ELSE /\ Len(tasks) < MaxTasks
          /\ LET newTask == [id |-> Str(ToString(now)),
                             text |-> Str(trimmedText),
                             completed |-> Bool(FALSE),
                             dueDate |-> selectedDate]
             IN Rerender(Append(tasks, newTask), sortBy, TRUE)
          /\ inputValue' = <<>>
          /\ selectedDate' = Undefined
          /\ UNCHANGED <<pc, savedTasks, queued, now>>

\* addTask (lines 190-204).
AddTask ==
  /\ pc = "ready"
  /\ LET trimmedText == Trim(inputValue) IN
     IF trimmedText = <<>>
     THEN UNCHANGED vars
     ELSE /\ Len(tasks) < MaxTasks
          /\ LET newTask == [id |-> Str(ToString(now)),
                             text |-> Str(trimmedText),
                             completed |-> Bool(FALSE),
                             dueDate |-> selectedDate]
             IN Rerender(Append(tasks, newTask), sortBy, TRUE)
          /\ inputValue' = <<>>
          /\ selectedDate' = Undefined
          /\ UNCHANGED <<pc, savedTasks, queued, now>>

\* tasks.map(...) of toggleComplete (lines 208-210).
toggleCompleteMap(ts, id) ==
  [i \in 1..Len(ts) |->
     IF Get(ts[i], "id") = id
     THEN With(ts[i], "completed", Bool(~Truthy(Get(ts[i], "completed"))))
     ELSE ts[i]]

\* toggleComplete (lines 206-212).
ToggleComplete(id) ==
  /\ pc = "ready"
  /\ Rerender(toggleCompleteMap(tasks, id), sortBy, TRUE)
  /\ UNCHANGED <<pc, inputValue, selectedDate, savedTasks, queued, now>>

RECURSIVE deleteTaskFilter(_, _)
\* tasks.filter((task) => task.id !== id) (line 215).
deleteTaskFilter(ts, id) ==
  IF ts = <<>> THEN <<>>
  ELSE IF Get(ts[1], "id") # id
  THEN <<ts[1]>> \o deleteTaskFilter(Tail(ts), id)
  ELSE deleteTaskFilter(Tail(ts), id)

\* deleteTask (lines 214-216).
DeleteTask(id) ==
  /\ pc = "ready"
  /\ Rerender(deleteTaskFilter(tasks, id), sortBy, TRUE)
  /\ UNCHANGED <<pc, inputValue, selectedDate, savedTasks, queued, now>>

\* The clock advances.
Tick ==
  /\ now < ClockStart + MaxTicks
  /\ now' = now + 1
  /\ UNCHANGED <<pc, tasks, inputValue, selectedDate, sortBy, sortedTasks, storage, savedTasks, queued>>

\* The ids the handlers are called with: those of the tasks shown, and one
\* that no task has.
NoSuchId == Str(<<"x">>)
IdArgs == {Get(tasks[i], "id") : i \in 1..Len(tasks)} \cup {NoSuchId}

Next ==
  \/ LoadEffect
  \/ SaveEffect
  \/ MountRerender
  \/ \E v \in Inputs : SetInputValue(v)
  \/ \E d \in CalendarDates : SelectDate(d)
  \/ ClearDate
  \/ \E m \in {"none", "deadline"} : SetSortBy(m)
  \/ AddTask
  \/ \E id \in IdArgs : ToggleComplete(id)
  \/ \E id \in IdArgs : DeleteTask(id)
  \/ Tick

Spec == Init /\ [][Next]_vars

\* The component started on storage that holds no task: no key, or the
\* empty list an earlier session left.
InitFresh ==
  /\ Init
  /\ storage \in {NoKey, JSONStringify(<<>>)}

SpecFresh == InitFresh /\ [][Next]_vars

\* ---------------------------------------------------- the view on its own
\* The component after it loaded a stored list: any list of up to
\* MaxViewTasks tasks, with due dates at and away from local midnight.
ViewDue ==
  {Undefined} \cup
  {DateV(t) : t \in {LocalMidnight(FirstDay - 1), LocalMidnight(FirstDay),
                     LocalMidnight(FirstDay) + 1, LocalMidnight(FirstDay + 1)}}
ViewLists == UNION {[1..n -> BOOLEAN \X ViewDue] : n \in 0..MaxViewTasks}
ViewTask(i, c, d) ==
  [id |-> Str(ToString(ClockStart - MaxViewTasks - 1 + i)), text |-> Str(<<"a">>),
   completed |-> Bool(c), dueDate |-> d]
ViewTasks(l) == [i \in 1..Len(l) |-> ViewTask(i, l[i][1], l[i][2])]

InitView ==
  /\ pc = "ready"
  /\ \E l \in ViewLists : tasks = ViewTasks(l)
  /\ inputValue = <<>>
  /\ selectedDate = Undefined
  /\ sortBy = "deadline"
  /\ sortedTasks = getSortedTasks(tasks, sortBy).result
  /\ storage = JSONStringify(tasks)
  /\ savedTasks = NotRead
  /\ queued = NoUpdate
  /\ now = ClockStart

NextView ==
  \/ \E m \in {"none", "deadline"} : SetSortBy(m)
  \/ \E id \in IdArgs : ToggleComplete(id)
  \/ Tick

SpecView == InitView /\ [][NextView]_vars

\* ================================================================== claims
\* Helpers of the statements below, written from the claims' words.
HasId(ts, id) == \E i \in 1..Len(ts) : Get(ts[i], "id") = id
IsBlank(s) == \A i \in 1..Len(s) : s[i] \in WhiteSpace

\* s with its element at position k removed.
Without(s, k) == SubSeq(s, 1, k - 1) \o SubSeq(s, k + 1, Len(s))

\* C1: in every state reached from an empty store the ids of the tasks in the
\* store are pairwise distinct (the first half of the claim; the code already
\* fails it).
IdsPairwiseDistinct ==
  \A i, j \in 1..Len(tasks) : i # j => Get(tasks[i], "id") # Get(tasks[j], "id")

\* C2: delete(id) leaves the sequence unchanged when no task has that id;
\* otherwise the sequence is shorter by exactly one, no remaining task has the
\* id, and the remaining tasks keep their fields and relative order.
DeleteRemovesExactlyOne ==
  [][\A id \in IdArgs :
       DeleteTask(id) =>
         IF ~HasId(tasks, id) THEN tasks' = tasks
         ELSE /\ Len(tasks') = Len(tasks) - 1
              /\ ~HasId(tasks', id)
              /\ \E k \in 1..Len(tasks) : tasks' = Without(tasks, k)]_vars

\* C3: toggleComplete(t.id) changes only the completed field of t and no
\* field of any other task, applied twice it restores t's completed value,
\* and with an id no task has it leaves the sequence unchanged.
ToggleFlipsOnlyThatTask ==
  [][\A id \in IdArgs :
       ToggleComplete(id) =>
         IF ~HasId(tasks, id) THEN tasks' = tasks
         ELSE /\ Len(tasks') = Len(tasks)
              /\ \E k \in 1..Len(tasks) :
                   /\ Get(tasks[k], "id") = id
                   /\ tasks'[k] = With(tasks[k], "completed",
                                       Bool(~Get(tasks[k], "completed").v))
                   /\ \A i \in 1..Len(tasks) : i # k => tasks'[i] = tasks[i]
              /\ toggleCompleteMap(tasks', id) = tasks]_vars

\* The text is the serialization of a task sequence of the expected shape: an
\* array of records with id, text, completed and an optional dueDate string.
IsTaskRecord(e) ==
  /\ e.k = "obj"
  /\ {"id", "text", "completed"} \subseteq DOMAIN e.v
  /\ DOMAIN e.v \subseteq {"id", "text", "completed", "dueDate"}
  /\ e.v["id"].k = "str" /\ e.v["text"].k = "str" /\ e.v["completed"].k = "bool"
  /\ "dueDate" \in DOMAIN e.v =>
       e.v["dueDate"].k = "str" /\ DateParse(e.v["dueDate"].v) # InvalidDate
IsTaskArrayText(text) ==
  /\ text.k = "json"
  /\ text.v.k = "arr"
  /\ \A i \in 1..Len(text.v.v) : IsTaskRecord(text.v.v[i])

\* The step that completes the initialisation.
InitCompletes == pc # "ready" /\ pc' = "ready"

\* C4: when the stored content is not the serialization of a task sequence of
\* the expected shape, the task list after initialisation is empty.
MalformedFallsBackToEmpty ==
  [][(InitCompletes /\ ~IsTaskArrayText(savedTasks)) => tasks' = <<>>]_vars

\* The stored text holds exactly the tasks ts, in order: an array with one
\* record per task, carrying that task's id, text and completed, and its due
\* date as a string that reads back as the same instant (absent when the task
\* has none).
Mirrors(text, ts) ==
  /\ text.k = "json"
  /\ text.v.k = "arr"
  /\ Len(text.v.v) = Len(ts)
  /\ \A i \in 1..Len(ts) :
       LET e == text.v.v[i] IN
       /\ e.k = "obj"
       /\ \A f \in {"id", "text", "completed"} : Prop(e, f) = Get(ts[i], f)
       /\ IF Get(ts[i], "dueDate") = Undefined
          THEN "dueDate" \notin DOMAIN e.v
          ELSE /\ Prop(e, "dueDate").k = "str"
               /\ DateParse(Prop(e, "dueDate").v) = Get(ts[i], "dueDate")

\* C5: once a handler and its save effect have run, storage holds the
\* serialization of the entire in-memory task sequence, in the same order.
StorageMirrorsTasks == pc = "ready" => Mirrors(storage, tasks)

C5_Witness ==
  /\ pc = "ready"
  /\ Len(tasks) = 2
  /\ Get(tasks[1], "completed") = Bool(TRUE)
  /\ Get(tasks[2], "dueDate") # Undefined
  /\ Get(tasks[2], "id") = Str(ToString(now))

\* C6: if storage holds the serialization of a task sequence L when the
\* component starts, then when initialisation completes the in-memory tasks
\* equal L and storage again holds the serialization of L.
StorageRoundTrip ==
  [][InitCompletes =>
       \A l \in StoredLists :
         savedTasks = JSONStringify(StoredTasks(l)) =>
           /\ tasks' = StoredTasks(l)
           /\ Mirrors(storage', StoredTasks(l))
           /\ storage' = savedTasks]_vars

C6_Witness ==
  /\ pc = "ready"
  /\ Len(tasks) = MaxStored
  /\ \A i \in 1..Len(tasks) : Get(tasks[i], "id") = Str(StoredId(i))
  /\ Get(tasks[1], "dueDate") # Undefined
  /\ Get(tasks[1], "completed") = Bool(TRUE)
  /\ Get(tasks[2], "dueDate") = Undefined
  /\ storage = JSONStringify(tasks)

\* t is s without its leading and trailing white space.
IsTrimOf(t, s) ==
  /\ t # <<>> => t[1] \notin WhiteSpace /\ t[Len(t)] \notin WhiteSpace
  /\ \E a, b \in 0..Len(s) :
       /\ a + Len(t) + b = Len(s)
       /\ t = SubSeq(s, a + 1, a + Len(t))
       /\ \A i \in 1..a : s[i] \in WhiteSpace
       /\ \A i \in (Len(s) - b + 1)..Len(s) : s[i] \in WhiteSpace

\* C7: add with input whose trimmed form is non-empty yields the old sequence
\* followed by exactly one new task with the trimmed text, completed false and
\* the selected due date (absent when none); afterwards the input is empty
\* and no date is selected.
AddAppendsOneTask ==
  [][(AddTask /\ ~IsBlank(inputValue)) =>
       /\ Len(tasks') = Len(tasks) + 1
       /\ SubSeq(tasks', 1, Len(tasks)) = tasks
       /\ LET t == tasks'[Len(tasks')] IN
          /\ DOMAIN t = {"id", "text", "completed", "dueDate"}
          /\ t["text"].k = "str" /\ IsTrimOf(t["text"].v, inputValue)
          /\ t["completed"] = Bool(FALSE)
          /\ t["dueDate"] = selectedDate
       /\ inputValue' = <<>>
       /\ selectedDate' = Undefined]_vars

C7_Witness ==
  /\ pc = "ready"
  /\ Len(tasks) = 2
  /\ Get(tasks[2], "text") = Str(<<"a">>)
  /\ Get(tasks[2], "id") = Str(ToString(now))
  /\ Get(tasks[2], "dueDate") = DateV(LocalMidnight(FirstDay + 1))
  /\ Get(tasks[1], "dueDate") = Undefined
  /\ inputValue = <<>>
  /\ selectedDate = Undefined

\* C8: add with empty or white-space-only input leaves the task sequence,
\* and so the stored content, unchanged.
BlankAddIsNoOp ==
  [][(AddTask /\ IsBlank(inputValue)) => (tasks' = tasks /\ storage' = storage)]_vars

C8_Witness ==
  /\ pc = "ready"
  /\ inputValue = <<" ">>
  /\ Len(tasks) = 1
  /\ ENABLED AddTask

Completed(t) == Get(t, "completed") = Bool(TRUE)
HasDue(t) == Get(t, "dueDate").k = "date"
DueDay(t) == CalendarDay(Get(t, "dueDate").t)

\* The deadline order: a goes before b when a is incomplete and b completed;
\* or, their completion being equal, a has a due date and b none, or both
\* have one and a's is earlier.
GoesBefore(a, b) ==
  \/ ~Completed(a) /\ Completed(b)
  \/ /\ Completed(a) = Completed(b)
     /\ \/ HasDue(a) /\ ~HasDue(b)
        \/ HasDue(a) /\ HasDue(b) /\ Get(a, "dueDate").t < Get(b, "dueDate").t

\* view is ts sorted stably by the deadline order: the same tasks, none out
\* of order, and those the order does not separate in their order in ts.
PosIn(ts, x) == CHOOSE j \in 1..Len(ts) : ts[j] = x
IsStableDeadlineSort(view, ts) ==
  /\ Len(view) = Len(ts)
  /\ \A j \in 1..Len(ts) : \E i \in 1..Len(view) : view[i] = ts[j]
  /\ \A i, j \in 1..Len(view) :
       i < j =>
         /\ ~GoesBefore(view[j], view[i])
         /\ ~GoesBefore(view[i], view[j]) => PosIn(ts, view[i]) < PosIn(ts, view[j])

\* A (no date), B (due yesterday), C (due tomorrow), none completed.
IsABC(ts, t) ==
  /\ Len(ts) = 3
  /\ \A i \in 1..3 : ~Completed(ts[i])
  /\ ~HasDue(ts[1])
  /\ HasDue(ts[2]) /\ DueDay(ts[2]) = CalendarDay(t) - 1
  /\ HasDue(ts[3]) /\ DueDay(ts[3]) = CalendarDay(t) + 1

ViewMatchesMode ==
  /\ sortBy = "none" => sortedTasks = tasks
  /\ sortBy = "deadline" => IsStableDeadlineSort(sortedTasks, tasks)
  /\ (sortBy = "deadline" /\ IsABC(tasks, now)) =>
       sortedTasks = <<tasks[2], tasks[3], tasks[1]>>

\* C9: in mode "deadline" the view is the stable sort of the insertion order
\* by the deadline order (so A, B, C as above show as B, C, A), in mode "none"
\* it is the insertion order, and deriving the view never changes the store.
ViewIsStableSortOfStore ==
  /\ []ViewMatchesMode
  /\ [][\A m \in {"none", "deadline"} :
          SetSortBy(m) => (tasks' = tasks /\ storage' = storage)]_vars

C9_Witness ==
  /\ sortBy = "deadline"
  /\ now > ClockStart
  /\ IsABC(tasks, now)
  /\ sortedTasks = <<tasks[2], tasks[3], tasks[1]>>
  /\ sortedTasks # tasks

\* Overdue as the claim words it.
OverdueOn(t, clock) ==
  HasDue(t) /\ ~Completed(t) /\ DueDay(t) < CalendarDay(clock)

\* C10: isOverdue is true exactly when the task has a due date, is not
\* completed, and the calendar day of its due date is strictly before the
\* current calendar day; toggling an overdue task makes it not overdue and
\* toggling it back makes it overdue again.
OverdueIffPastDueAndOpen ==
  /\ [](\A i \in 1..Len(tasks) : isOverdue(tasks[i], now) <=> OverdueOn(tasks[i], now))
  /\ [][\A id \in IdArgs :
          ToggleComplete(id) =>
            \A k \in 1..Len(tasks) :
              (Get(tasks[k], "id") = id /\ HasDue(tasks[k])
                 /\ DueDay(tasks[k]) < CalendarDay(now)) =>
                (isOverdue(tasks[k], now) <=> ~isOverdue(tasks'[k], now'))]_vars

C10_Witness ==
  /\ Len(tasks) = 3
  /\ isOverdue(tasks[1], now)
  /\ Completed(tasks[2]) /\ HasDue(tasks[2]) /\ DueDay(tasks[2]) < CalendarDay(now)
  /\ ~isOverdue(tasks[2], now)
  /\ ~Completed(tasks[3]) /\ HasDue(tasks[3]) /\ DueDay(tasks[3]) = CalendarDay(now)
  /\ Get(tasks[3], "dueDate").t < now
  /\ ~isOverdue(tasks[3], now)

====
